---- MODULE Spec2Model ----
(***************************************************************************)
(* git-report (src/src/main.rs): the commit log is read from `git log`,    *)
(* turned into a (date, author) frame, aggregated per (month, author) and  *)
(* per author, and the two aggregations become the activity chart and the  *)
(* top-N ranking chart of git-report.html.                                 *)
(*                                                                         *)
(* Text is a sequence of tokens: a one-character string, or a whole short  *)
(* date ("2024-01-05") as git prints it with --date=short.  A frame is a   *)
(* sequence of rows (records).  Where polars leaves the row order open     *)
(* (group_by without maintain_order, sort without maintain_order,          *)
(* partition_by), the operator returns the set of all frames it may        *)
(* produce and the action picks one of them.                               *)
(***************************************************************************)
EXTENDS Integers, Sequences, FiniteSets, TLC

VARIABLES
    pc,                          \* position of main / of the function under check
    env,                         \* what main finds outside: path, .git, git, disk, browser
    repo,                        \* the commits of the repository, in `git log` order
    stdout,                      \* output.stdout of `git log` (tokens)
    log,                         \* the frame get_commit_log returns
    commits_per_day_per_author,  \* plot_commit_history's grouped, sorted frame
    activity_plot,               \* traces of the activity chart, in add_trace order
    top,                         \* plot_commit_count_per_author's parameter
    grouped_per_author,          \* group_by(author).agg(count), before sort and tail
    commits_per_author,          \* plot_commit_count_per_author's frame (after tail)
    commits_per_author_plot,     \* the single trace of the ranking chart
    steps,                       \* the steps main has taken, in order
    file_written,                \* git-report.html has been written
    previous                     \* the charts of the previous run on the same log

vars == <<pc, env, repo, stdout, log, commits_per_day_per_author, activity_plot, top,
          grouped_per_author, commits_per_author, commits_per_author_plot,
          steps, file_written, previous>>

----------------------------------------------------------------------------
(* Bounds of the model *)

\* commits in a frame handed to the two plot functions
MaxCommits == 3
\* commits in the output of `git log` in a run of main
MaxLogLines == 2
\* largest `top` tried on plot_commit_count_per_author
MaxTop == 3
\* commits in the frame that is aggregated twice
MaxRerunCommits == 2
\* runs over the same frame
MaxRuns == 2

\* main's argument to plot_commit_count_per_author
MainTop == 10

----------------------------------------------------------------------------
(* Values *)

\* the dates `git log --date=short` prints in the model, with their values
DateOf ==
    ("2023-12-30" :> [year |-> 2023, month |-> 12, day |-> 30]) @@
    ("2024-01-05" :> [year |-> 2024, month |-> 1, day |-> 5]) @@
    ("2024-01-20" :> [year |-> 2024, month |-> 1, day |-> 20])

DateTexts == DOMAIN DateOf

\* a null of a Date / String column
Null == [null |-> TRUE]

\* author names without the field separator
PlainNames == {<<"a">>, <<"b">>, <<"a", "b">>}

\* author names git can print (%an): any text without a line break
GitNames == PlainNames \cup {<<"a", ",", "b">>}

Min(a, b) == IF a <= b THEN a ELSE b

\* all sequences over S of length 0..n
RECURSIVE SeqsUpTo(_, _)
SeqsUpTo(S, n) ==
    IF n = 0 THEN {<<>>}
    ELSE LET shorter == SeqsUpTo(S, n - 1)
         IN  shorter \cup {Append(s, x) : s \in {t \in shorter : Len(t) = n - 1}, x \in S}

\* all orders in which the elements of S can appear as rows
RECURSIVE Orderings(_)
Orderings(S) ==
    IF S = {} THEN {<<>>}
    ELSE UNION {{<<x>> \o rest : rest \in Orderings(S \ {x})} : x \in S}

Range(s) == {s[i] : i \in DOMAIN s}

RECURSIVE Flatten(_, _)
Flatten(parts, sep) ==
    IF parts = <<>> THEN <<>>
    ELSE IF Len(parts) = 1 THEN parts[1]
    ELSE parts[1] \o <<sep>> \o Flatten(Tail(parts), sep)

\* what git prints for the commits cs: "%ad,%an" per commit, a line break between
GitLogOutput(cs) ==
    Flatten([i \in DOMAIN cs |-> <<cs[i].date>> \o <<",">> \o cs[i].name], "\n")

----------------------------------------------------------------------------
(* get_commit_log *)

\* str::split(sep): the pieces between separators, at least one piece
RECURSIVE Split(_, _)
Split(s, sep) ==
    IF \A i \in DOMAIN s : s[i] # sep THEN <<s>>
    ELSE LET k == CHOOSE i \in DOMAIN s :
                      s[i] = sep /\ \A j \in 1..(i - 1) : s[j] # sep
         IN  <<SubSeq(s, 1, k - 1)>> \o Split(SubSeq(s, k + 1, Len(s)), sep)

\* str::lines(): split at line breaks, a final empty line is dropped
Lines(s) ==
    LET parts == Split(s, "\n")
    IN  IF parts[Len(parts)] = <<>> THEN SubSeq(parts, 1, Len(parts) - 1) ELSE parts

\* .list().get(lit(i), false) with 0-based i: out of bounds is an error
ListGetInBounds(list, i) == i + 1 \in DOMAIN list
ListGet(list, i) == list[i + 1]

\* .str().strptime(Date, "%Y-%m-%d", strict: false): null when the text is no date
Strptime(field) ==
    IF Len(field) = 1 /\ field[1] \in DateTexts THEN DateOf[field[1]] ELSE Null

\* the collect() of get_commit_log fails when a line has no second field
CommitLogFails(text) ==
    \E i \in DOMAIN Lines(text) : ~ListGetInBounds(Split(Lines(text)[i], ","), 1)

\* the frame of get_commit_log: one row per line
CommitLogFrame(text) ==
    LET lines == Lines(text)
    IN  [i \in DOMAIN lines |->
            [date   |-> Strptime(ListGet(Split(lines[i], ","), 0)),
             author |-> ListGet(Split(lines[i], ","), 1)]]

----------------------------------------------------------------------------
(* plot_commit_history *)

\* mutant of Strftime: the format "%Y-%m-%d", which keeps the day
StrftimeDay(date) == date

\* col("date").dt().strftime("%Y-%m"): the date without its day; null stays null
Strftime(date) ==
    IF date = Null THEN Null ELSE [year |-> date.year, month |-> date.month]

\* order of two "%Y-%m" strings: four-digit year, then two-digit month
MonthLessEq(m1, m2) ==
    \/ m1.year < m2.year
    \/ m1.year = m2.year /\ m1.month <= m2.month

\* mutant of CountAuthor: n_unique() in place of count()
CountAuthorUnique(df, rows) == Cardinality({df[i].author : i \in rows})

\* col("author").count(): the rows of the group whose author is not null; the
\* author column holds no null (a missing second field fails get_commit_log)
CountAuthor(df, rows) == Cardinality({i \in rows : df[i].author \in Seq(STRING)})

\* group_by([strftime(date), author]).agg([author.count()]): the rows, in no order
GroupByMonthAuthor(df) ==
    {[date   |-> key[1],
      author |-> key[2],
      count  |-> CountAuthor(df, {i \in DOMAIN df :
                     <<Strftime(df[i].date), df[i].author>> = key})] :
        key \in {<<Strftime(df[i].date), df[i].author>> : i \in DOMAIN df}}

\* mutant of SortByDate: the sort left out, the rows stay in group_by's order
SortOmitted(rows) == Orderings(rows)

\* .sort(["date"]): every order of the rows that ascends in date
SortByDate(rows) ==
    {f \in Orderings(rows) :
        \A i, j \in DOMAIN f : i < j => MonthLessEq(f[i].date, f[j].date)}

\* mutant of PartitionBy: a frame without rows comes back as one empty partition
PartitionByKeepsEmpty(df) ==
    IF df = <<>> THEN {<<df>>}
    ELSE {[k \in DOMAIN order |-> SelectSeq(df, LAMBDA r : r.author = order[k])] :
             order \in Orderings({df[i].author : i \in DOMAIN df})}

\* partition_by(["author"], true): one frame per author, rows in frame order,
\* the frames in any order
PartitionBy(df) ==
    {[k \in DOMAIN order |-> SelectSeq(df, LAMBDA r : r.author = order[k])] :
        order \in Orderings({df[i].author : i \in DOMAIN df})}

\* the unwraps of the loop body: a null month, or a frame without a first row
TraceFails(author_df) ==
    \/ author_df = <<>>
    \/ \E i \in DOMAIN author_df : author_df[i].date = Null

\* Bar::new(x, y).name(author) of one author's frame
TraceOf(author_df) ==
    [name |-> author_df[1].author,
     x    |-> [i \in DOMAIN author_df |-> author_df[i].date],
     y    |-> [i \in DOMAIN author_df |-> author_df[i].count]]

----------------------------------------------------------------------------
(* plot_commit_count_per_author *)

\* mutant of CountDate: n_unique() in place of count()
CountDateUnique(df, rows) == Cardinality({df[i].date : i \in rows} \ {Null})

\* col("date").count(): the rows of the group whose date is not null
CountDate(df, rows) == Cardinality({i \in rows : df[i].date # Null})

\* group_by(["author"]).agg([date.count()]): the rows, in no order
GroupByAuthor(df) ==
    {[author |-> a,
      count  |-> CountDate(df, {i \in DOMAIN df : df[i].author = a})] :
        a \in {df[i].author : i \in DOMAIN df}}

\* mutant of SortByCount: the sort descends
SortByCountDescending(rows) ==
    {f \in Orderings(rows) :
        \A i, j \in DOMAIN f : i < j => f[i].count >= f[j].count}

\* .sort(["count"]): every order of the rows that ascends in count
SortByCount(rows) ==
    {f \in Orderings(rows) :
        \A i, j \in DOMAIN f : i < j => f[i].count <= f[j].count}

\* mutant of TailRows: a slice from -n, which is the whole frame for n = 0
TailRowsSlice(df, n) ==
    IF n = 0 THEN df ELSE SubSeq(df, Len(df) - Min(n, Len(df)) + 1, Len(df))

\* DataFrame::tail(Some(n)): the last min(n, height) rows
TailRows(df, n) == SubSeq(df, Len(df) - Min(n, Len(df)) + 1, Len(df))

\* Bar::new(x, y) of the ranking: x the counts, y the authors
RankingTrace(df) ==
    [x |-> [i \in DOMAIN df |-> df[i].count],
     y |-> [i \in DOMAIN df |-> df[i].author]]

----------------------------------------------------------------------------
(* main *)

\* mutant of IsGitRepository: the .git check left out
GitCheckSkipped(e) == TRUE

\* cli.path.exists()
PathExists(e) == e.path_exists

\* cli.path.join(".git").exists()
IsGitRepository(e) == e.has_git

Environments ==
    {e \in [path_exists : BOOLEAN, has_git : BOOLEAN, git_runs : BOOLEAN,
            write_ok : BOOLEAN, browser_ok : BOOLEAN] :
        e.has_git => e.path_exists}

NoTrace == [x |-> <<>>, y |-> <<>>]

Init ==
    /\ pc = "check_path"
    /\ env \in Environments
    /\ repo \in SeqsUpTo([date : DateTexts, name : GitNames], MaxLogLines)
    /\ stdout = <<>>
    /\ log = <<>>
    /\ commits_per_day_per_author = <<>>
    /\ activity_plot = <<>>
    /\ top = 0
    /\ grouped_per_author = {}
    /\ commits_per_author = <<>>
    /\ commits_per_author_plot = NoTrace
    /\ steps = <<>>
    /\ file_written = FALSE
    /\ previous = <<>>

CheckPath ==
    /\ pc = "check_path"
    /\ pc' = IF PathExists(env) THEN "check_git" ELSE "exit_1"
    /\ steps' = Append(steps, "check_path")
    /\ UNCHANGED <<env, repo, stdout, log, commits_per_day_per_author, activity_plot, top,
                   grouped_per_author, commits_per_author, commits_per_author_plot,
                   file_written, previous>>

CheckGit ==
    /\ pc = "check_git"
    /\ pc' = IF IsGitRepository(env) THEN "get_commit_log" ELSE "exit_1"
    /\ steps' = Append(steps, "check_git")
    /\ UNCHANGED <<env, repo, stdout, log, commits_per_day_per_author, activity_plot, top,
                   grouped_per_author, commits_per_author, commits_per_author_plot,
                   file_written, previous>>

GetCommitLog ==
    /\ pc = "get_commit_log"
    /\ steps' = Append(steps, "get_commit_log")
    /\ IF ~env.git_runs
       THEN /\ pc' = "panicked_get_commit_log"
            /\ UNCHANGED <<stdout, log>>
       ELSE /\ stdout' = GitLogOutput(repo)
            /\ IF CommitLogFails(stdout')
               THEN /\ pc' = "panicked_get_commit_log"
                    /\ UNCHANGED log
               ELSE /\ pc' = "plot_commit_history"
                    /\ log' = CommitLogFrame(stdout')
    /\ UNCHANGED <<env, repo, commits_per_day_per_author, activity_plot, top,
                   grouped_per_author, commits_per_author, commits_per_author_plot,
                   file_written, previous>>

PlotCommitHistory ==
    /\ pc = "plot_commit_history"
    /\ steps' = Append(steps, "plot_commit_history")
    /\ \E sorted \in SortByDate(GroupByMonthAuthor(log)) :
       \E author_dfs \in PartitionBy(sorted) :
          /\ commits_per_day_per_author' = sorted
          /\ IF \E k \in DOMAIN author_dfs : TraceFails(author_dfs[k])
             THEN /\ pc' = "panicked_plot_commit_history"
                  /\ UNCHANGED activity_plot
             ELSE /\ pc' = "plot_commit_count_per_author"
                  /\ activity_plot' = [k \in DOMAIN author_dfs |-> TraceOf(author_dfs[k])]
    /\ UNCHANGED <<env, repo, stdout, log, top, grouped_per_author, commits_per_author,
                   commits_per_author_plot, file_written, previous>>

PlotCommitCountPerAuthor(n) ==
    /\ pc = "plot_commit_count_per_author"
    /\ steps' = Append(steps, "plot_commit_count_per_author")
    /\ top' = n
    /\ grouped_per_author' = GroupByAuthor(log)
    /\ \E sorted \in SortByCount(GroupByAuthor(log)) :
          /\ commits_per_author' = TailRows(sorted, n)
          /\ commits_per_author_plot' = RankingTrace(TailRows(sorted, n))
    /\ pc' = "get_repo_languages"
    /\ UNCHANGED <<env, repo, stdout, log, commits_per_day_per_author, activity_plot,
                   file_written, previous>>

GetRepoLanguages ==
    /\ pc = "get_repo_languages"
    /\ pc' = "render"
    /\ steps' = Append(steps, "get_repo_languages")
    /\ UNCHANGED <<env, repo, stdout, log, commits_per_day_per_author, activity_plot, top,
                   grouped_per_author, commits_per_author, commits_per_author_plot,
                   file_written, previous>>

Render ==
    /\ pc = "render"
    /\ pc' = "write"
    /\ steps' = Append(steps, "render")
    /\ UNCHANGED <<env, repo, stdout, log, commits_per_day_per_author, activity_plot, top,
                   grouped_per_author, commits_per_author, commits_per_author_plot,
                   file_written, previous>>

WriteReport ==
    /\ pc = "write"
    /\ steps' = Append(steps, "write")
    /\ file_written' = env.write_ok
    /\ pc' = IF env.write_ok THEN "open_browser" ELSE "panicked_write"
    /\ UNCHANGED <<env, repo, stdout, log, commits_per_day_per_author, activity_plot, top,
                   grouped_per_author, commits_per_author, commits_per_author_plot,
                   previous>>

OpenBrowser ==
    /\ pc = "open_browser"
    /\ steps' = IF env.browser_ok
                THEN steps \o <<"open_browser", "print_done">>
                ELSE Append(steps, "open_browser")
    /\ pc' = "exit_0"
    /\ UNCHANGED <<env, repo, stdout, log, commits_per_day_per_author, activity_plot, top,
                   grouped_per_author, commits_per_author, commits_per_author_plot,
                   file_written, previous>>

Next ==
    \/ CheckPath
    \/ CheckGit
    \/ GetCommitLog
    \/ PlotCommitHistory
    \/ PlotCommitCountPerAuthor(MainTop)
    \/ GetRepoLanguages
    \/ Render
    \/ WriteReport
    \/ OpenBrowser

Spec == Init /\ [][Next]_vars

----------------------------------------------------------------------------
(* The two plot functions on every frame get_commit_log can return *)

\* the frames get_commit_log can return: valid dates, authors without a comma
Frames(n) ==
    SeqsUpTo([date : {DateOf[t] : t \in DateTexts}, author : PlainNames], n)

InitFrame(n) ==
    /\ pc = "plot_commit_history"
    /\ env = [path_exists |-> TRUE, has_git |-> TRUE, git_runs |-> TRUE,
              write_ok |-> TRUE, browser_ok |-> TRUE]
    /\ repo = <<>>
    /\ stdout = <<>>
    /\ log \in Frames(n)
    /\ commits_per_day_per_author = <<>>
    /\ activity_plot = <<>>
    /\ top = 0
    /\ grouped_per_author = {}
    /\ commits_per_author = <<>>
    /\ commits_per_author_plot = NoTrace
    /\ steps = <<>>
    /\ file_written = FALSE
    /\ previous = <<>>

InitAgg == InitFrame(MaxCommits)

NextAgg ==
    \/ PlotCommitHistory
    \/ \E n \in 0..MaxTop : PlotCommitCountPerAuthor(n)

SpecAgg == InitAgg /\ [][NextAgg]_vars

----------------------------------------------------------------------------
(* The report generated again from the same commit log *)

Charts == [activity |-> activity_plot, ranking |-> commits_per_author_plot]

Rerun ==
    /\ pc = "get_repo_languages"
    /\ Len(previous) + 1 < MaxRuns
    /\ previous' = Append(previous, Charts)
    /\ pc' = "plot_commit_history"
    /\ commits_per_day_per_author' = <<>>
    /\ activity_plot' = <<>>
    /\ grouped_per_author' = {}
    /\ commits_per_author' = <<>>
    /\ commits_per_author_plot' = NoTrace
    /\ steps' = <<>>
    /\ UNCHANGED <<env, repo, stdout, log, top, file_written>>

InitRerun == InitFrame(MaxRerunCommits)

NextRerun ==
    \/ PlotCommitHistory
    \/ \E n \in 0..MaxTop :
          /\ previous # <<>> => n = top
          /\ PlotCommitCountPerAuthor(n)
    \/ Rerun

SpecRerun == InitRerun /\ [][NextRerun]_vars

----------------------------------------------------------------------------
(* What the charts are checked against: the commit records themselves *)

HistoryReturned ==
    pc \in {"plot_commit_count_per_author", "get_repo_languages", "render", "write",
            "open_browser", "exit_0", "panicked_write"}

RankingReturned ==
    pc \in {"get_repo_languages", "render", "write", "open_browser", "exit_0",
            "panicked_write"}

LogReturned == pc = "plot_commit_history" \/ HistoryReturned

AuthorsOfLog == {log[k].author : k \in DOMAIN log}

\* the records of author a
RecordsBy(a) == {k \in DOMAIN log : log[k].author = a}

\* the records of author a dated in the month (year y, month m)
RecordsIn(a, y, m) ==
    {k \in RecordsBy(a) : log[k].date.year = y /\ log[k].date.month = m}

RECURSIVE SumSeq(_)
SumSeq(s) == IF s = <<>> THEN 0 ELSE s[1] + SumSeq(Tail(s))

RECURSIVE SumCounts(_)
SumCounts(rows) ==
    IF rows = {} THEN 0
    ELSE LET r == CHOOSE r \in rows : TRUE IN r.count + SumCounts(rows \ {r})

\* m1 is an earlier month than m2
Earlier(m1, m2) ==
    m1.year < m2.year \/ (m1.year = m2.year /\ m1.month < m2.month)

----------------------------------------------------------------------------
(* C1 *)

\* C1: the monthly aggregation of plot_commit_history has exactly one entry per
\* (author, year-month) pair occurring in the log, each entry counts the records
\* of that author in that month, and the counts add up to the number of records.
C1_MonthlyCountsExact ==
    HistoryReturned =>
        LET f == commits_per_day_per_author
        IN  /\ \A i \in DOMAIN f :
                  /\ f[i].count = Cardinality(RecordsIn(f[i].author, f[i].date.year,
                                                        f[i].date.month))
                  /\ f[i].count > 0
            /\ \A k \in DOMAIN log :
                  \E i \in DOMAIN f : k \in RecordsIn(f[i].author, f[i].date.year,
                                                      f[i].date.month)
            /\ \A i, j \in DOMAIN f :
                  (/\ f[i].author = f[j].author
                   /\ f[i].date.year = f[j].date.year
                   /\ f[i].date.month = f[j].date.month) => i = j
            /\ SumSeq([i \in DOMAIN f |-> f[i].count]) = Len(log)

\* two commits of one author on different days of one month, and a second entry
C1_Witness ==
    /\ HistoryReturned
    /\ Len(commits_per_day_per_author) >= 2
    /\ \E k1, k2 \in DOMAIN log :
          /\ log[k1].author = log[k2].author
          /\ log[k1].date.year = log[k2].date.year
          /\ log[k1].date.month = log[k2].date.month
          /\ log[k1].date.day # log[k2].date.day

----------------------------------------------------------------------------
(* C2 *)

\* C2: before the truncation to the top N, every author of the log has exactly one
\* total, it is the number of that author's records, and the totals add up to the
\* number of records.
C2_TotalsExact ==
    RankingReturned =>
        /\ {r.author : r \in grouped_per_author} = AuthorsOfLog
        /\ \A r \in grouped_per_author : r.count = Cardinality(RecordsBy(r.author))
        /\ \A r1, r2 \in grouped_per_author : r1.author = r2.author => r1 = r2
        /\ SumCounts(grouped_per_author) = Len(log)

\* an author with two commits on one day, beside another author
C2_Witness ==
    /\ RankingReturned
    /\ Cardinality(grouped_per_author) >= 2
    /\ \E k1, k2 \in DOMAIN log :
          k1 # k2 /\ log[k1].author = log[k2].author /\ log[k1].date = log[k2].date

----------------------------------------------------------------------------
(* C3 *)

\* C3: for every author the monthly counts add up to the author's total, and the
\* two aggregations have the same authors.
C3_AggregationsAgree ==
    RankingReturned =>
        LET f == commits_per_day_per_author
            MonthlySum(a) ==
                SumSeq([i \in DOMAIN f |-> IF f[i].author = a THEN f[i].count ELSE 0])
        IN  /\ {f[i].author : i \in DOMAIN f} = {r.author : r \in grouped_per_author}
            /\ \A r \in grouped_per_author : MonthlySum(r.author) = r.count

\* an author with commits in two months, more than one of them in one month
C3_Witness ==
    /\ RankingReturned
    /\ \E i, j \in DOMAIN commits_per_day_per_author :
          /\ i # j
          /\ commits_per_day_per_author[i].author = commits_per_day_per_author[j].author
          /\ commits_per_day_per_author[i].count >= 2

----------------------------------------------------------------------------
(* C4 *)

\* C4: the ranking holds min(top, number of distinct authors) authors: none for
\* top = 0, all of them for top >= their number, none for an empty log.
C4_RankingLength ==
    RankingReturned =>
        LET n == Min(top, Cardinality(AuthorsOfLog))
        IN  /\ Len(commits_per_author_plot.y) = n
            /\ Len(commits_per_author_plot.x) = n
            /\ Cardinality(Range(commits_per_author_plot.y)) = n
            /\ top = 0 => commits_per_author_plot.y = <<>>
            /\ top >= Cardinality(AuthorsOfLog) =>
                   Range(commits_per_author_plot.y) = AuthorsOfLog
            /\ log = <<>> => commits_per_author_plot.y = <<>>

\* a ranking that drops some authors and keeps some
C4_Witness ==
    /\ RankingReturned
    /\ 0 < top
    /\ top < Cardinality(AuthorsOfLog)
    /\ Len(commits_per_author_plot.y) = top

----------------------------------------------------------------------------
(* C5 *)

\* C5: the ranking ascends in commit count, the i-th count is the total of the
\* i-th author, and no author left out has more commits than an author kept.
C5_RankingAscendingTop ==
    RankingReturned =>
        LET x == commits_per_author_plot.x
            y == commits_per_author_plot.y
        IN  /\ DOMAIN x = DOMAIN y
            /\ \A i, j \in DOMAIN x : i < j => x[i] <= x[j]
            /\ \A i \in DOMAIN y : x[i] = Cardinality(RecordsBy(y[i]))
            /\ Range(y) \subseteq AuthorsOfLog
            /\ \A a \in AuthorsOfLog \ Range(y) : \A b \in Range(y) :
                   Cardinality(RecordsBy(a)) <= Cardinality(RecordsBy(b))

\* an author with fewer commits is left out, one with more is kept
C5_Witness ==
    /\ RankingReturned
    /\ \E a \in AuthorsOfLog \ Range(commits_per_author_plot.y) :
       \E b \in Range(commits_per_author_plot.y) :
           Cardinality(RecordsBy(a)) < Cardinality(RecordsBy(b))

----------------------------------------------------------------------------
(* C6 *)

\* C6: two runs on the same commit log yield the same charts: the same series in
\* the same order, the same authors kept in the ranking, in the same order.
C6_RunsAgree ==
    (RankingReturned /\ previous # <<>>) =>
        \A k \in DOMAIN previous : previous[k] = Charts

----------------------------------------------------------------------------
(* C7 *)

\* C7: on an empty commit log both plot functions return without a panic, the
\* activity chart has no series and the ranking has no authors and no counts.
C7_EmptyLogEmptyCharts ==
    log = <<>> =>
        /\ pc \in {"plot_commit_history", "plot_commit_count_per_author",
                   "get_repo_languages"}
        /\ activity_plot = <<>>
        /\ commits_per_day_per_author = <<>>
        /\ commits_per_author_plot = NoTrace
        /\ commits_per_author = <<>>

\* both functions have returned on the empty log, the ranking asked for some authors
C7_Witness ==
    /\ log = <<>>
    /\ pc = "get_repo_languages"
    /\ top > 0

----------------------------------------------------------------------------
(* C8 *)

\* C8: the activity chart has one series per author of the log, named after the
\* author; its x values are the months with a commit of that author, each once,
\* in chronological order, and its y values are the counts, all positive.
C8_ActivitySeries ==
    HistoryReturned =>
        /\ {activity_plot[k].name : k \in DOMAIN activity_plot} = AuthorsOfLog
        /\ Len(activity_plot) = Cardinality(AuthorsOfLog)
        /\ \A k \in DOMAIN activity_plot :
              LET t == activity_plot[k]
              IN  /\ DOMAIN t.x = DOMAIN t.y
                  /\ \A i, j \in DOMAIN t.x : i < j => Earlier(t.x[i], t.x[j])
                  /\ Len(t.x) >= 1
                  /\ \A i \in DOMAIN t.x : DOMAIN t.x[i] = {"year", "month"}
                  /\ {<<t.x[i].year, t.x[i].month>> : i \in DOMAIN t.x}
                        = {<<log[r].date.year, log[r].date.month>> : r \in RecordsBy(t.name)}
                  /\ \A i \in DOMAIN t.y :
                        /\ t.y[i] = Cardinality(RecordsIn(t.name, t.x[i].year, t.x[i].month))
                        /\ t.y[i] > 0

\* two series, one of them with two months, the other absent from one of the two
C8_Witness ==
    /\ HistoryReturned
    /\ \E k1, k2 \in DOMAIN activity_plot :
          /\ Len(activity_plot[k1].x) >= 2
          /\ Len(activity_plot[k2].x) = 1

----------------------------------------------------------------------------
(* C9 *)

\* C9: get_commit_log returns one (date, author) pair per commit, in log order,
\* and each pair's author is the commit's author name, whatever the name.
C9_ExtractionKeepsAuthors ==
    (LogReturned /\ "get_commit_log" \in Range(steps)) =>
        /\ Len(log) = Len(repo)
        /\ \A i \in DOMAIN log :
              /\ log[i].date = DateOf[repo[i].date]
              /\ log[i].author = repo[i].name

----------------------------------------------------------------------------
(* C10 *)

MainSteps ==
    <<"check_path", "check_git", "get_commit_log", "plot_commit_history",
      "plot_commit_count_per_author", "get_repo_languages", "render", "write",
      "open_browser", "print_done">>

\* C10: main takes its steps in the fixed order; without the path or its .git it
\* exits with status 1 before git runs and before the report is written; Done! is
\* printed only after the report is written and the browser was opened.
C10_MainOrder ==
    /\ Len(steps) <= Len(MainSteps)
    /\ \A i \in DOMAIN steps : steps[i] = MainSteps[i]
    /\ (~env.path_exists \/ ~env.has_git) =>
          /\ "get_commit_log" \notin Range(steps)
          /\ ~file_written
          /\ pc \in {"check_path", "check_git", "exit_1"}
          /\ Len(steps) = 2 => pc = "exit_1"
    /\ pc = "exit_1" => (~env.path_exists \/ ~env.has_git)
    /\ "print_done" \in Range(steps) =>
          file_written /\ env.browser_ok /\ "write" \in Range(steps)
    /\ file_written => "render" \in Range(steps)

\* a run that printed Done!
C10_Witness ==
    /\ pc = "exit_0"
    /\ "print_done" \in Range(steps)

====
